---- MODULE Spec2Model ----
(***************************************************************************)
(* switcheroo-control: the GPU detection daemon of                         *)
(* src/src/switcheroo-control.c as a state machine.                        *)
(*                                                                         *)
(* A C string is a sequence of atoms (words and the separator " "), so     *)
(* that concatenation, prefix tests and token clean-up are computed; the   *)
(* empty string is <<>> and a NULL pointer is the one-atom sentinel NULL.  *)
(***************************************************************************)
EXTENDS Integers, Sequences, FiniteSets, TLC

VARIABLES
    pc,              \* position of main(): "start", "setup_dbus", "init_done", "run_loop", "loop", "exited", "aborted"
    exit_status,     \* -1 while the process runs, else the status it ended with
    add_fake_cards,  \* ControlData.add_fake_cards (--fake)
    replace,         \* main()'s replace (--replace)
    connection,      \* ControlData.connection: NULL or the bus connection
    name_id,         \* ControlData.name_id: 0 until g_bus_own_name
    init_done,       \* ControlData.init_done
    num_gpus,        \* ControlData.num_gpus
    cards,           \* ControlData.cards: NULL or a sequence of CardData
    registered,      \* the object is registered on the connection (property reads can arrive)
    bus,             \* what g_bus_own_name is doing: "unowned", "connecting", "connected", "owner",
                     \* and after the name was lost its cause: "no_bus", "name_taken", "name_lost"
    devices,         \* what g_udev_client_query_by_subsystem returned to the last enumeration
    out,             \* the PropertiesChanged signals emitted by the last step
    published,       \* the payload of the most recent PropertiesChanged signal, or NULL
    reply,           \* the value returned by the last handle_get_property call, or NO_REPLY
    last             \* the handler or step of main() that ran last, and the branch it took

vars == <<pc, exit_status, add_fake_cards, replace, connection, name_id, init_done,
          num_gpus, cards, registered, bus, devices, out, published, reply, last>>

----------------------------------------------------------------------------
(* Strings and pointers *)

NULL == <<"<NULL>">>

Str(w) == <<w>>

\* a pointer test, !p
IsNull(p) == p = NULL

\* *s == '\0'
IsEmptyStr(s) == s = <<>>

\* g_strcmp0 (a, b) == 0
g_strcmp0_eq(a, b) == a = b

\* g_str_has_prefix (str, prefix)
g_str_has_prefix(str, prefix) ==
    /\ Len(str) >= Len(prefix)
    /\ SubSeq(str, 1, Len(prefix)) = prefix

\* g_strdup_printf ("%s %s", a, b)
printf_s_s(a, b) == a \o <<" ">> \o b

----------------------------------------------------------------------------
(* Bounds *)

\* the largest number of drm devices the hardware query returns
MaxDevices == 2

----------------------------------------------------------------------------
(* Devices of the drm subsystem, as gudev shows them *)

RENDER_PREFIX == <<"/dev/dri/", "render">>

\* a GUdevDevice: its device file, and its parent's driver, udev properties and
\* boot_vga sysfs attribute; ID_PATH_TAG is a property of the device itself
NULL_DEVICE ==
    [device_file |-> NULL, driver |-> NULL, ID_PATH_TAG |-> NULL, boot_vga |-> FALSE,
     SWITCHEROO_CONTROL_VENDOR_NAME |-> NULL, ID_VENDOR_FROM_DATABASE |-> NULL,
     SWITCHEROO_CONTROL_PRODUCT_NAME |-> NULL, ID_MODEL_FROM_DATABASE |-> NULL]

\* a CardData that is a NULL pointer
NULL_CARD ==
    [dev |-> NULL_DEVICE, name |-> NULL, name_is_literal |-> FALSE, env |-> NULL,
     is_default |-> FALSE]

----------------------------------------------------------------------------
(* info_cleanup: removes the words that repeat an earlier one *)

\* acc is the cleaned text so far and seen the words in it; a repeated word is
\* dropped with the separator before it
RECURSIVE Dedup(_, _, _)
Dedup(rest, acc, seen) ==
    IF rest = <<>> THEN acc
    ELSE IF Head(rest) = " " THEN Dedup(Tail(rest), Append(acc, " "), seen)
    ELSE IF Head(rest) \in seen
         THEN Dedup(Tail(rest),
                    IF acc # <<>> /\ acc[Len(acc)] = " "
                    THEN SubSeq(acc, 1, Len(acc) - 1) ELSE acc,
                    seen)
    ELSE Dedup(Tail(rest), Append(acc, Head(rest)), seen \cup {Head(rest)})

info_cleanup(renderer) == Dedup(renderer, <<>>, {})

----------------------------------------------------------------------------
(* Per-device metadata *)

NVIDIA_ENV ==
    << Str("__GLX_VENDOR_LIBRARY_NAME"), Str("nvidia"),
       Str("__NV_PRIME_RENDER_OFFLOAD"), Str("1"),
       Str("__VK_LAYER_NV_optimus"), Str("NVIDIA_only") >>

\* get_card_env that looks for ID_PATH_TAG before it looks at the driver
card_env_array_tag_first(dev) ==
    IF ~IsNull(dev.ID_PATH_TAG)
    THEN << Str("DRI_PRIME"), dev.ID_PATH_TAG >>
    ELSE IF g_strcmp0_eq(dev.driver, Str("nvidia")) THEN NVIDIA_ENV ELSE <<>>

\* get_card_env without the test of line 263: DRI_PRIME is added whatever id is
card_env_array_always_prime(dev) ==
    IF g_strcmp0_eq(dev.driver, Str("nvidia"))
    THEN NVIDIA_ENV
    ELSE << Str("DRI_PRIME"), dev.ID_PATH_TAG >>

\* the array get_card_env has filled before it tests array->len
card_env_array(dev) ==
    IF g_strcmp0_eq(dev.driver, Str("nvidia"))
    THEN NVIDIA_ENV
    ELSE IF ~IsNull(dev.ID_PATH_TAG)
         THEN << Str("DRI_PRIME"), dev.ID_PATH_TAG >>
         ELSE <<>>

\* get_card_env without the test of lines 269-272: the empty array is returned
get_card_env_never_null(dev) == card_env_array(dev)

get_card_env(dev) ==
    IF Len(card_env_array(dev)) = 0 THEN NULL ELSE card_env_array(dev)

UNKNOWN_NAME == <<"Unknown", " ", "Graphics", " ", "Controller">>

card_vendor(d) ==
    IF IsNull(d.SWITCHEROO_CONTROL_VENDOR_NAME) \/ IsEmptyStr(d.SWITCHEROO_CONTROL_VENDOR_NAME)
    THEN d.ID_VENDOR_FROM_DATABASE
    ELSE d.SWITCHEROO_CONTROL_VENDOR_NAME

card_product(d) ==
    IF IsNull(d.SWITCHEROO_CONTROL_PRODUCT_NAME) \/ IsEmptyStr(d.SWITCHEROO_CONTROL_PRODUCT_NAME)
    THEN d.ID_MODEL_FROM_DATABASE
    ELSE d.SWITCHEROO_CONTROL_PRODUCT_NAME

get_card_name(d) ==
    LET vendor == card_vendor(d)
        product == card_product(d)
    IN  IF IsNull(vendor) /\ IsNull(product) THEN UNKNOWN_NAME
        ELSE IF IsNull(vendor) THEN product
        ELSE IF IsNull(product) THEN vendor
        ELSE info_cleanup(printf_s_s(vendor, product))

get_card_is_default(d) == d.boot_vga

\* get_card_data without the test of lines 323-324: a card is built whatever env is
get_card_data_keeps_empty(d) ==
    [dev |-> d, name |-> get_card_name(d), name_is_literal |-> FALSE,
     env |-> get_card_env(d), is_default |-> get_card_is_default(d)]

get_card_data(d) ==
    LET env == get_card_env(d)
    IN  IF IsNull(env) THEN NULL_CARD
        ELSE [dev |-> d, name |-> get_card_name(d), name_is_literal |-> FALSE,
              env |-> env, is_default |-> get_card_is_default(d)]

FAKE_INTEL_NAME == <<"Intel", " ", "i740", " ", "Auburn">>
FAKE_TRIDENT_NAME == <<"Trident", " ", "Vesa", " ", "Local", " ", "Bus", " ", "512KB">>

\* the card add_fake_intel_card appends: g_new0 leaves dev NULL and is_default FALSE
fake_intel_card ==
    [dev |-> NULL_DEVICE, name |-> FAKE_INTEL_NAME, name_is_literal |-> TRUE,
     env |-> << Str("INTEL_AGP_OFFLOADING"), Str("1"), Str("INTEL_PCI_MODE"), Str("false") >>,
     is_default |-> FALSE]

add_fake_intel_card(cs) == Append(cs, fake_intel_card)

fake_trident_card ==
    [dev |-> NULL_DEVICE, name |-> FAKE_TRIDENT_NAME, name_is_literal |-> TRUE,
     env |-> << Str("TRIDENT_OFFLOADING"), Str("1") >>,
     is_default |-> FALSE]

add_fake_trident_card(cs) == Append(cs, fake_trident_card)

\* the test of lines 391-392 on one queried device
is_render_node(d) ==
    ~IsNull(d.device_file) /\ g_str_has_prefix(d.device_file, RENDER_PREFIX)

\* the loop of get_drm_cards over the queried devices, appending to cs
RECURSIVE scan_devices(_, _)
scan_devices(cs, ds) ==
    IF ds = <<>> THEN cs
    ELSE LET d == Head(ds)
             card == get_card_data(d)
         IN  IF is_render_node(d) /\ card # NULL_CARD
             THEN scan_devices(Append(cs, card), Tail(ds))
             ELSE scan_devices(cs, Tail(ds))

\* get_drm_cards without lines 405-409
only_card_unchanged(cs) == cs

\* get_drm_cards that makes the first card the default whatever the count
first_card_is_default(cs) ==
    IF Len(cs) >= 1 THEN <<[cs[1] EXCEPT !.is_default = TRUE]>> \o Tail(cs) ELSE cs

\* "Make sure the only card is the default"
only_card_is_default(cs) ==
    IF Len(cs) = 1 THEN <<[cs[1] EXCEPT !.is_default = TRUE]>> ELSE cs

\* get_drm_cards that adds both fake cards before it queries the devices
get_drm_cards_fakes_first(fake, ds) ==
    LET c0 == IF fake THEN add_fake_trident_card(add_fake_intel_card(<<>>)) ELSE <<>>
    IN  only_card_is_default(scan_devices(c0, ds))

get_drm_cards(fake, ds) ==
    LET c0 == IF fake THEN add_fake_intel_card(<<>>) ELSE <<>>
        c1 == scan_devices(c0, ds)
        c2 == IF fake THEN add_fake_trident_card(c1) ELSE c1
    IN  only_card_is_default(c2)

----------------------------------------------------------------------------
(* The hardware the model enumerates *)

INTEL_IGPU ==
    [device_file |-> <<"/dev/dri/", "render", "D128">>, driver |-> Str("i915"),
     ID_PATH_TAG |-> Str("pci-0000_00_02_0"), boot_vga |-> TRUE,
     SWITCHEROO_CONTROL_VENDOR_NAME |-> NULL, ID_VENDOR_FROM_DATABASE |-> Str("Intel"),
     SWITCHEROO_CONTROL_PRODUCT_NAME |-> NULL,
     ID_MODEL_FROM_DATABASE |-> <<"Intel", " ", "HD", " ", "Graphics">>]

NVIDIA_DGPU ==
    [device_file |-> <<"/dev/dri/", "render", "D129">>, driver |-> Str("nvidia"),
     ID_PATH_TAG |-> Str("pci-0000_01_00_0"), boot_vga |-> FALSE,
     SWITCHEROO_CONTROL_VENDOR_NAME |-> NULL, ID_VENDOR_FROM_DATABASE |-> Str("NVIDIA"),
     SWITCHEROO_CONTROL_PRODUCT_NAME |-> NULL, ID_MODEL_FROM_DATABASE |-> NULL]

\* a render node with no ID_PATH_TAG and no nvidia parent
VGEM_RENDER ==
    [device_file |-> <<"/dev/dri/", "render", "D130">>, driver |-> NULL,
     ID_PATH_TAG |-> NULL, boot_vga |-> FALSE,
     SWITCHEROO_CONTROL_VENDOR_NAME |-> NULL, ID_VENDOR_FROM_DATABASE |-> NULL,
     SWITCHEROO_CONTROL_PRODUCT_NAME |-> NULL, ID_MODEL_FROM_DATABASE |-> NULL]

\* the display-control node of the integrated GPU
INTEL_CARD0 ==
    [device_file |-> <<"/dev/dri/", "card", "0">>, driver |-> Str("i915"),
     ID_PATH_TAG |-> Str("pci-0000_00_02_0"), boot_vga |-> TRUE,
     SWITCHEROO_CONTROL_VENDOR_NAME |-> NULL, ID_VENDOR_FROM_DATABASE |-> Str("Intel"),
     SWITCHEROO_CONTROL_PRODUCT_NAME |-> NULL,
     ID_MODEL_FROM_DATABASE |-> <<"Intel", " ", "HD", " ", "Graphics">>]

Devices == {INTEL_IGPU, NVIDIA_DGPU, VGEM_RENDER, INTEL_CARD0}

\* the lists of distinct devices of S, of at most n
ListsOf(S, n) ==
    { l \in UNION { [1..k -> S] : k \in 0..n } :
        \A i, j \in 1..Len(l) : i # j => l[i] # l[j] }

\* what g_udev_client_query_by_subsystem (client, "drm") can return
DeviceLists == ListsOf(Devices, MaxDevices)

----------------------------------------------------------------------------
(* D-Bus *)

CONNECTION == <<"GDBusConnection">>

\* a GPtrArray pointer that is NULL
NULL_ARRAY == <<NULL_CARD>>

PropertyNames == {"HasDualGpu", "NumGPUs", "GPUs", "Version"}

build_gpus_variant(cs) ==
    [i \in 1..Len(cs) |->
        [Name |-> cs[i].name, Environment |-> cs[i].env, Default |-> cs[i].is_default]]

\* send_dbus_event with HasDualGpu true only above two GPUs
props_changed_strict(n, cs) ==
    [HasDualGpu |-> n > 2, NumGPUs |-> n, GPUs |-> build_gpus_variant(cs)]

\* the changed-properties dictionary send_dbus_event builds
props_changed(n, cs) ==
    [HasDualGpu |-> n >= 2, NumGPUs |-> n, GPUs |-> build_gpus_variant(cs)]

\* send_dbus_event without the test of lines 110-113
send_dbus_event_unchecked(conn, n, cs) == <<props_changed(n, cs)>>

\* the signals send_dbus_event emits
send_dbus_event(conn, n, cs) ==
    IF IsNull(conn) THEN <<>> ELSE <<props_changed(n, cs)>>

\* the GVariant handle_get_property returns
get_property_value(property_name, n, cs) ==
    IF property_name = "HasDualGpu" THEN [type |-> "b", b |-> n >= 2]
    ELSE IF property_name = "NumGPUs" THEN [type |-> "u", u |-> n]
    ELSE IF property_name = "GPUs" THEN [type |-> "aa{sv}", gpus |-> build_gpus_variant(cs)]
    ELSE [type |-> "NULL"]

\* what g_ptr_array_free (array, TRUE) can do: free_card_data passes a fake
\* card's name, a string literal, to g_free, which is undefined
g_ptr_array_free(cs) ==
    IF cs = NULL_ARRAY THEN {"freed"}
    ELSE IF \E i \in 1..Len(cs) : cs[i].name_is_literal THEN {"freed", "abort"}
    ELSE {"freed"}

----------------------------------------------------------------------------
(* The process *)

Init ==
    /\ pc = "start"
    /\ exit_status = -1
    /\ add_fake_cards \in BOOLEAN
    /\ replace \in BOOLEAN
    /\ connection = NULL
    /\ name_id = 0
    /\ init_done = FALSE
    /\ num_gpus = 0
    /\ cards = NULL_ARRAY
    /\ registered = FALSE
    /\ bus = "unowned"
    /\ devices = <<>>
    /\ out = <<>>
    /\ published = <<>>
    /\ reply = <<>>
    /\ last = "main"

\* the main loop is dispatching callbacks
Dispatching == pc = "loop"

\* a step emitted the signals sigs
Emit(sigs) ==
    /\ out' = sigs
    /\ published' = IF sigs # <<>> THEN sigs ELSE published

\* abort(): the process dies of SIGABRT
Abort ==
    /\ pc' = "aborted"
    /\ exit_status' = 128 + 6

\* get_num_gpus that counts the cards and does not store them in data->cards
get_num_gpus_drops_cards(ds) ==
    /\ pc = "start"
    /\ devices' = ds
    /\ num_gpus' = Len(get_drm_cards(add_fake_cards, ds))
    /\ pc' = "setup_dbus"
    /\ Emit(<<>>)
    /\ reply' = <<>>
    /\ last' = "get_num_gpus"
    /\ UNCHANGED <<exit_status, add_fake_cards, replace, connection, name_id, init_done,
                   registered, bus, cards>>

get_num_gpus(ds) ==
    /\ pc = "start"
    /\ devices' = ds
    /\ cards' = get_drm_cards(add_fake_cards, ds)
    /\ num_gpus' = Len(get_drm_cards(add_fake_cards, ds))
    /\ pc' = "setup_dbus"
    /\ Emit(<<>>)
    /\ reply' = <<>>
    /\ last' = "get_num_gpus"
    /\ UNCHANGED <<exit_status, add_fake_cards, replace, connection, name_id, init_done,
                   registered, bus>>

setup_dbus ==
    /\ pc = "setup_dbus"
    /\ name_id' = 1
    /\ bus' = "connecting"
    /\ pc' = "init_done"
    /\ Emit(<<>>)
    /\ reply' = <<>>
    /\ last' = "setup_dbus"
    /\ UNCHANGED <<exit_status, add_fake_cards, replace, connection, init_done, num_gpus,
                   cards, registered, devices>>

\* main(), lines 485-487
main_init_done ==
    /\ pc = "init_done"
    /\ init_done' = TRUE
    /\ Emit(IF ~IsNull(connection) THEN send_dbus_event(connection, num_gpus, cards) ELSE <<>>)
    /\ pc' = "run_loop"
    /\ reply' = <<>>
    /\ last' = "init_done"
    /\ UNCHANGED <<exit_status, add_fake_cards, replace, connection, name_id, num_gpus,
                   cards, registered, bus, devices>>

\* main(), lines 489-490
g_main_loop_run ==
    /\ pc = "run_loop"
    /\ pc' = "loop"
    /\ Emit(<<>>)
    /\ reply' = <<>>
    /\ last' = "g_main_loop_run"
    /\ UNCHANGED <<exit_status, add_fake_cards, replace, connection, name_id, init_done,
                   num_gpus, cards, registered, bus, devices>>

\* a test of line 426 that takes every enumeration for a change
always_differs(new_num_gpus, old_num_gpus) == TRUE

\* a test of line 426 that sees only a count that grew
count_grew(new_num_gpus, old_num_gpus) == new_num_gpus > old_num_gpus

\* the test of line 426
count_differs(new_num_gpus, old_num_gpus) == new_num_gpus # old_num_gpus

\* uevent_cb that calls send_dbus_event before it stores the new cards
uevent_cb_publishes_first(ds) ==
    /\ Dispatching
    /\ devices' = ds
    /\ reply' = <<>>
    /\ LET new_cards == get_drm_cards(add_fake_cards, ds)
           new_num_gpus == Len(new_cards)
       IN  IF count_differs(new_num_gpus, num_gpus)
           THEN \E freed \in g_ptr_array_free(cards) :
                    IF freed = "abort"
                    THEN /\ Abort
                         /\ Emit(<<>>)
                         /\ last' = "uevent_cb: abort"
                         /\ UNCHANGED <<cards, num_gpus>>
                    ELSE /\ cards' = new_cards
                         /\ num_gpus' = Len(new_cards)
                         /\ Emit(send_dbus_event(connection, num_gpus, cards))
                         /\ last' = "uevent_cb: changed"
                         /\ UNCHANGED <<pc, exit_status>>
           ELSE \E freed \in g_ptr_array_free(new_cards) :
                    IF freed = "abort"
                    THEN /\ Abort
                         /\ Emit(<<>>)
                         /\ last' = "uevent_cb: abort"
                         /\ UNCHANGED <<cards, num_gpus>>
                    ELSE /\ Emit(<<>>)
                         /\ last' = "uevent_cb: same"
                         /\ UNCHANGED <<pc, exit_status, cards, num_gpus>>
    /\ UNCHANGED <<add_fake_cards, replace, connection, name_id, init_done, registered, bus>>

uevent_cb(ds) ==
    /\ Dispatching
    /\ devices' = ds
    /\ reply' = <<>>
    /\ LET new_cards == get_drm_cards(add_fake_cards, ds)
           new_num_gpus == Len(new_cards)
       IN  IF count_differs(new_num_gpus, num_gpus)
           THEN \E freed \in g_ptr_array_free(cards) :
                    IF freed = "abort"
                    THEN /\ Abort
                         /\ Emit(<<>>)
                         /\ last' = "uevent_cb: abort"
                         /\ UNCHANGED <<cards, num_gpus>>
                    ELSE /\ cards' = new_cards
                         /\ num_gpus' = Len(new_cards)
                         /\ Emit(send_dbus_event(connection, Len(new_cards), new_cards))
                         /\ last' = "uevent_cb: changed"
                         /\ UNCHANGED <<pc, exit_status>>
           ELSE \E freed \in g_ptr_array_free(new_cards) :
                    IF freed = "abort"
                    THEN /\ Abort
                         /\ Emit(<<>>)
                         /\ last' = "uevent_cb: abort"
                         /\ UNCHANGED <<cards, num_gpus>>
                    ELSE /\ Emit(<<>>)
                         /\ last' = "uevent_cb: same"
                         /\ UNCHANGED <<pc, exit_status, cards, num_gpus>>
    /\ UNCHANGED <<add_fake_cards, replace, connection, name_id, init_done, registered, bus>>

\* bus_acquired_handler without the assignment of line 190
bus_acquired_handler_forgets_connection ==
    /\ Dispatching
    /\ bus = "connecting"
    /\ registered' = TRUE
    /\ bus' = "connected"
    /\ Emit(<<>>)
    /\ reply' = <<>>
    /\ last' = "bus_acquired_handler"
    /\ UNCHANGED <<pc, exit_status, add_fake_cards, replace, connection, name_id, init_done,
                   num_gpus, cards, devices>>

bus_acquired_handler ==
    /\ Dispatching
    /\ bus = "connecting"
    /\ registered' = TRUE
    /\ connection' = CONNECTION
    /\ bus' = "connected"
    /\ Emit(<<>>)
    /\ reply' = <<>>
    /\ last' = "bus_acquired_handler"
    /\ UNCHANGED <<pc, exit_status, add_fake_cards, replace, name_id, init_done, num_gpus,
                   cards, devices>>

\* name_acquired_handler that never calls send_dbus_event
name_acquired_handler_silent ==
    /\ Dispatching
    /\ bus = "connected"
    /\ bus' = "owner"
    /\ Emit(<<>>)
    /\ reply' = <<>>
    /\ last' = "name_acquired_handler"
    /\ UNCHANGED <<pc, exit_status, add_fake_cards, replace, connection, name_id, init_done,
                   num_gpus, cards, registered, devices>>

name_acquired_handler ==
    /\ Dispatching
    /\ bus = "connected"
    /\ bus' = "owner"
    /\ Emit(IF init_done THEN send_dbus_event(connection, num_gpus, cards) ELSE <<>>)
    /\ reply' = <<>>
    /\ last' = "name_acquired_handler"
    /\ UNCHANGED <<pc, exit_status, add_fake_cards, replace, connection, name_id, init_done,
                   num_gpus, cards, registered, devices>>

\* why g_bus_own_name calls name_lost_handler: the bus cannot be connected to
\* ("no_bus"), the name has an owner and --replace was not given ("name_taken"),
\* it was given and the owner does not allow replacement ("not_replaceable"), or
\* the name was owned and another instance replaced this one ("name_lost")
NameLostCauses == {"no_bus", "name_taken", "not_replaceable", "name_lost"}

name_is_lost(cause) ==
    \/ cause = "no_bus" /\ bus = "connecting"
    \/ cause = "name_taken" /\ bus = "connected" /\ ~replace
    \/ cause = "not_replaceable" /\ bus = "connected" /\ replace
    \/ cause = "name_lost" /\ bus = "owner"

\* name_lost_handler that logs and returns, without exit (0)
name_lost_handler_returns(cause) ==
    /\ Dispatching
    /\ name_is_lost(cause)
    /\ bus' = cause
    /\ Emit(<<>>)
    /\ reply' = <<>>
    /\ last' = "name_lost_handler"
    /\ UNCHANGED <<pc, exit_status, add_fake_cards, replace, connection, name_id, init_done,
                   num_gpus, cards, registered, devices>>

name_lost_handler(cause) ==
    /\ Dispatching
    /\ name_is_lost(cause)
    /\ bus' = cause
    /\ pc' = "exited"
    /\ exit_status' = 0
    /\ Emit(<<>>)
    /\ reply' = <<>>
    /\ last' = "name_lost_handler"
    /\ UNCHANGED <<add_fake_cards, replace, connection, name_id, init_done, num_gpus, cards,
                   registered, devices>>

\* handle_get_property that signals the snapshot on every read
handle_get_property_emits(property_name) ==
    /\ Dispatching
    /\ registered
    /\ Emit(<<props_changed(num_gpus, cards)>>)
    /\ reply' = <<[property |-> property_name,
                   value |-> get_property_value(property_name, num_gpus, cards)]>>
    /\ last' = "handle_get_property"
    /\ UNCHANGED <<pc, exit_status, add_fake_cards, replace, connection, name_id, init_done,
                   num_gpus, cards, registered, bus, devices>>

handle_get_property(property_name) ==
    /\ Dispatching
    /\ registered
    /\ Emit(<<>>)
    /\ IF IsNull(connection) \/ (property_name = "GPUs" /\ cards = NULL_ARRAY)
       THEN /\ Abort
            /\ reply' = <<>>
            /\ last' = "handle_get_property: abort"
       ELSE /\ reply' = <<[property |-> property_name,
                           value |-> get_property_value(property_name, num_gpus, cards)]>>
            /\ last' = "handle_get_property"
            /\ UNCHANGED <<pc, exit_status>>
    /\ UNCHANGED <<add_fake_cards, replace, connection, name_id, init_done, num_gpus, cards,
                   registered, bus, devices>>

Next ==
    \/ \E ds \in DeviceLists : get_num_gpus(ds)
    \/ setup_dbus
    \/ main_init_done
    \/ g_main_loop_run
    \/ \E ds \in DeviceLists : uevent_cb(ds)
    \/ bus_acquired_handler
    \/ name_acquired_handler
    \/ \E cause \in NameLostCauses : name_lost_handler(cause)
    \/ \E property_name \in PropertyNames : handle_get_property(property_name)

Spec == Init /\ [][Next]_vars

----------------------------------------------------------------------------
(* The enumeration alone, over every kind of drm device *)

EnumDevices ==
    [device_file : {NULL, <<"/dev/dri/", "render", "D128">>, <<"/dev/dri/", "card", "0">>},
     driver : {Str("nvidia"), Str("i915")},
     ID_PATH_TAG : {NULL, Str("pci-0000_01_00_0")},
     boot_vga : BOOLEAN,
     SWITCHEROO_CONTROL_VENDOR_NAME : {NULL}, ID_VENDOR_FROM_DATABASE : {NULL},
     SWITCHEROO_CONTROL_PRODUCT_NAME : {NULL}, ID_MODEL_FROM_DATABASE : {NULL}]

NextEnum == \E ds \in ListsOf(EnumDevices, MaxDevices) : get_num_gpus(ds)

SpecEnum == Init /\ [][NextEnum]_vars

(* The name of one render node, over every combination of its parent's
   vendor and product properties: absent, empty or set *)

NameDevices ==
    [device_file : {<<"/dev/dri/", "render", "D128">>},
     driver : {Str("i915")},
     ID_PATH_TAG : {Str("pci-0000_00_02_0")},
     boot_vga : BOOLEAN,
     SWITCHEROO_CONTROL_VENDOR_NAME : {NULL, <<>>, Str("Chipzilla")},
     ID_VENDOR_FROM_DATABASE : {NULL, <<>>, Str("Intel")},
     SWITCHEROO_CONTROL_PRODUCT_NAME : {NULL, <<>>, Str("Iris")},
     ID_MODEL_FROM_DATABASE : {NULL, <<>>, <<"Intel", " ", "HD", " ", "Graphics">>}]

NextName == \E d \in NameDevices : get_num_gpus(<<d>>)

SpecName == Init /\ [][NextName]_vars

----------------------------------------------------------------------------
(* Properties *)

\* the step is a run of uevent_cb
UeventStep == \E ds \in DeviceLists : uevent_cb(ds)

\* the cards uevent_cb enumerates in the step
FreshCards == get_drm_cards(add_fake_cards, devices')

\* C1: a hotplug event whose fresh enumeration has as many GPUs as the stored
\* snapshot leaves num_gpus and cards as they were and emits no signal, also
\* when the freshly enumerated cards are not the stored ones.
C1_SameCountLeavesSnapshot ==
    [][ (UeventStep /\ Len(FreshCards) = num_gpus)
            => /\ num_gpus' = num_gpus
               /\ cards' = cards
               /\ out' = <<>>
               /\ published' = published ]_vars

\* a same-count event was handled whose enumeration differs from the stored cards
C1_Witness ==
    /\ last = "uevent_cb: same"
    /\ ~IsNull(connection)
    /\ cards # get_drm_cards(add_fake_cards, devices)
    /\ Len(cards) = Len(get_drm_cards(add_fake_cards, devices))

\* C2: a hotplug event whose fresh enumeration has another GPU count makes the
\* new cards the snapshot and emits one signal carrying the new snapshot's
\* HasDualGpu, NumGPUs and GPUs.
C2_ChangePublishesNewSnapshot ==
    [][ (UeventStep /\ Len(FreshCards) # num_gpus)
            => /\ cards' = FreshCards
               /\ num_gpus' = Len(FreshCards)
               /\ out' = <<props_changed(Len(FreshCards), FreshCards)>> ]_vars

\* C2, amended: such an event makes the new cards the snapshot; it emits one
\* signal carrying the new snapshot's values when there is a connection and none
\* when there is not. With --fake, freeing the old cards may instead abort the
\* process, with the snapshot as it was and nothing emitted.
C2_ChangePublishesWhenConnected ==
    [][ (UeventStep /\ Len(FreshCards) # num_gpus)
            => \/ /\ pc' = "loop"
                  /\ cards' = FreshCards
                  /\ num_gpus' = Len(FreshCards)
                  /\ out' = IF IsNull(connection) THEN <<>>
                            ELSE <<props_changed(Len(FreshCards), FreshCards)>>
                  /\ published' = IF IsNull(connection) THEN published ELSE out'
               \/ /\ add_fake_cards
                  /\ pc' = "aborted"
                  /\ cards' = cards
                  /\ num_gpus' = num_gpus
                  /\ out' = <<>>
                  /\ published' = published ]_vars

\* a changed snapshot of two GPUs was published over the connection
C2_Witness ==
    /\ last = "uevent_cb: changed"
    /\ ~IsNull(connection)
    /\ num_gpus >= 2
    /\ out = <<props_changed(num_gpus, cards)>>
    /\ out[1].HasDualGpu

\* C3: a step taken while data->connection is NULL emits no PropertiesChanged
\* signal, so none has been emitted as long as there is no connection.
C3_NoSignalWithoutConnection ==
    [][ IsNull(connection) => out' = <<>> /\ published' = <<>> ]_vars

\* send_dbus_event was called for a changed snapshot with no connection
C3_Witness ==
    /\ last = "uevent_cb: changed"
    /\ IsNull(connection)
    /\ published = <<>>

\* C4 as stated: when the bus cannot be connected to, the process keeps running.
C4_KeepsRunningWithoutBus == bus = "no_bus" => pc = "loop"

\* C4: when the bus cannot be connected to, name_lost_handler has ended the
\* process with status 0, and nothing was ever published.
C4_ExitsWithoutBus ==
    bus = "no_bus" =>
        /\ pc = "exited"
        /\ exit_status = 0
        /\ IsNull(connection)
        /\ published = <<>>

\* name_lost_handler has run because the bus could not be connected to
C4_Witness ==
    /\ bus = "no_bus"
    /\ last = "name_lost_handler"
    /\ pc = "exited"

KnownProperties == {"HasDualGpu", "NumGPUs", "GPUs"}

\* C5: whenever a property read can arrive the snapshot exists, and a read of
\* HasDualGpu, NumGPUs or GPUs never aborts and returns a value.
C5_ReadsAreServed ==
    /\ last # "handle_get_property: abort"
    /\ registered => cards # NULL_ARRAY /\ ~IsNull(connection)
    /\ \A i \in 1..Len(reply) :
          reply[i].property \in KnownProperties => reply[i].value.type # "NULL"

\* GPUs was read while the snapshot is empty
C5_Witness ==
    /\ reply # <<>>
    /\ reply[1].property = "GPUs"
    /\ reply[1].value.gpus = <<>>
    /\ num_gpus = 0

\* the queried devices that are render nodes with a resolved environment
Retained == { i \in 1..Len(devices) : is_render_node(devices[i])
                                        /\ ~IsNull(get_card_env(devices[i])) }

\* C6 as stated: the count an enumeration yields is the number of queried
\* devices whose resolved environment is not empty.
C6_CountIsNonEmptyEnvs ==
    pc = "setup_dbus" =>
        num_gpus = Cardinality({ i \in 1..Len(devices) : ~IsNull(get_card_env(devices[i])) })

\* C6, amended: the count an enumeration yields is the number of queried render
\* nodes (device file under /dev/dri/render) whose resolved environment is not
\* empty, plus the two fake cards when --fake is given.
C6_CountIsRetainedRenderNodes ==
    pc = "setup_dbus" =>
        /\ num_gpus = Cardinality(Retained) + (IF add_fake_cards THEN 2 ELSE 0)
        /\ Len(cards) = num_gpus

\* an enumeration that kept one render node and skipped one with no environment
C6_Witness ==
    /\ pc = "setup_dbus"
    /\ ~add_fake_cards
    /\ Len(devices) = 2
    /\ num_gpus = 1
    /\ \E i \in 1..2 : is_render_node(devices[i]) /\ IsNull(get_card_env(devices[i]))

\* C7: every card of the snapshot, of the last signal and of a GPUs reply has a
\* non-empty environment, the fake cards included.
C7_EveryCardHasEnvironment ==
    /\ cards # NULL_ARRAY =>
          \A i \in 1..Len(cards) : ~IsNull(cards[i].env) /\ Len(cards[i].env) > 0
    /\ \A k \in 1..Len(published) : \A i \in 1..Len(published[k].GPUs) :
          Len(published[k].GPUs[i].Environment) > 0
    /\ \A k \in 1..Len(reply) : reply[k].property = "GPUs" =>
          \A i \in 1..Len(reply[k].value.gpus) :
              Len(reply[k].value.gpus[i].Environment) > 0

\* with --fake, a snapshot was published for hardware holding a render node
\* that has no environment
C7_Witness ==
    /\ add_fake_cards
    /\ last = "uevent_cb: changed"
    /\ published # <<>>
    /\ \E i \in 1..Len(devices) : devices[i] = VGEM_RENDER
    /\ Len(cards) = 3

\* C8: a snapshot of exactly one card has that card as the default.
C8_OnlyCardIsDefault ==
    /\ (cards # NULL_ARRAY /\ Len(cards) = 1) => cards[1].is_default
    /\ \A k \in 1..Len(published) :
          Len(published[k].GPUs) = 1 => published[k].GPUs[1].Default

\* a hotplug event left one card whose parent is not the boot VGA device
C8_Witness ==
    /\ last = "uevent_cb: changed"
    /\ Len(cards) = 1
    /\ cards # NULL_ARRAY
    /\ ~cards[1].dev.boot_vga
    /\ cards[1].is_default

\* C9: the name get_card_name gives a card is never empty; it is "Unknown
\* Graphics Controller" when the parent has neither a vendor nor a product, and
\* the one it has when it has only one.
C9_NameNeverEmpty ==
    pc = "setup_dbus" =>
        \A i \in 1..Len(cards) : ~cards[i].name_is_literal =>
            LET vendor == card_vendor(cards[i].dev)
                product == card_product(cards[i].dev)
            IN  /\ ~IsNull(cards[i].name)
                /\ ~IsEmptyStr(cards[i].name)
                /\ IsNull(vendor) /\ IsNull(product) => cards[i].name = UNKNOWN_NAME
                /\ IsNull(vendor) /\ ~IsNull(product) => cards[i].name = product
                /\ ~IsNull(vendor) /\ IsNull(product) => cards[i].name = vendor

\* the name was lost to another instance: the name had an owner and --replace
\* was not given, or another instance took the name over
LostToAnother == {"name_taken", "name_lost"}

\* C10: when the name is lost to another instance the process has exited with
\* status 0, and from then on no step changes anything.
C10_NameLossExits ==
    [][ /\ bus' \in LostToAnother => pc' = "exited" /\ exit_status' = 0
        /\ bus \in LostToAnother => UNCHANGED vars ]_vars

\* the name had an owner, --replace was not given, and the process has exited
C10_Witness ==
    /\ bus = "name_taken"
    /\ ~replace
    /\ last = "name_lost_handler"
    /\ pc = "exited"
    /\ exit_status = 0

\* the devs of the cards cs
CardDevs(cs) == [i \in 1..Len(cs) |-> cs[i].dev]

\* the queried devices that are render nodes with a resolved environment, in
\* the order of the query
RetainedDevices ==
    SelectSeq(devices, LAMBDA d : is_render_node(d) /\ ~IsNull(get_card_env(d)))

\* C11: with --fake an enumeration yields the fake Intel card, then the cards
\* of the retained devices in the order of the query, then the fake Trident
\* card, so the count is the retained count plus 2; with no retained device
\* NumGPUs is 2 and HasDualGpu is TRUE.
C11_FakeCardsAroundRealOnes ==
    (pc = "setup_dbus" /\ add_fake_cards) =>
        /\ num_gpus = Len(RetainedDevices) + 2
        /\ Len(cards) = num_gpus
        /\ cards[1] = fake_intel_card
        /\ cards[Len(cards)] = fake_trident_card
        /\ CardDevs(SubSeq(cards, 2, Len(cards) - 1)) = RetainedDevices
        /\ RetainedDevices = <<>> =>
              /\ get_property_value("NumGPUs", num_gpus, cards).u = 2
              /\ get_property_value("HasDualGpu", num_gpus, cards).b

\* with --fake, two real devices were retained between the fake cards
C11_Witness ==
    /\ pc = "setup_dbus"
    /\ add_fake_cards
    /\ Len(cards) = 4
    /\ cards[2].dev = devices[1]
    /\ cards[3].dev = devices[2]

\* the card the snapshot holds for the queried device d, if any
CardsOf(d) == { i \in 1..Len(cards) : cards[i].dev = d }

\* C12 as stated: every queried device whose parent driver is nvidia is in the
\* snapshot, with the three nvidia pairs as its environment.
C12_NvidiaNeverExcluded ==
    pc = "setup_dbus" =>
        \A k \in 1..Len(devices) :
            g_strcmp0_eq(devices[k].driver, Str("nvidia")) =>
                /\ CardsOf(devices[k]) # {}
                /\ \A i \in CardsOf(devices[k]) : cards[i].env = NVIDIA_ENV

\* C12, amended: every queried render node whose parent driver is nvidia is
\* in the snapshot, with exactly the three nvidia pairs in their order as its
\* environment, whatever its ID_PATH_TAG; a device that is no render node is in
\* no snapshot.
C12_NvidiaRenderNodeNeverExcluded ==
    pc = "setup_dbus" =>
        \A k \in 1..Len(devices) :
            g_strcmp0_eq(devices[k].driver, Str("nvidia")) =>
                IF is_render_node(devices[k])
                THEN /\ Cardinality(CardsOf(devices[k])) = 1
                     /\ \A i \in CardsOf(devices[k]) :
                          cards[i].env =
                              << <<"__GLX_VENDOR_LIBRARY_NAME">>, <<"nvidia">>,
                                 <<"__NV_PRIME_RENDER_OFFLOAD">>, <<"1">>,
                                 <<"__VK_LAYER_NV_optimus">>, <<"NVIDIA_only">> >>
                ELSE CardsOf(devices[k]) = {}

\* an nvidia render node that has an ID_PATH_TAG is in the snapshot
C12_Witness ==
    /\ pc = "setup_dbus"
    /\ \E k \in 1..Len(devices) :
          /\ g_strcmp0_eq(devices[k].driver, Str("nvidia"))
          /\ ~IsNull(devices[k].ID_PATH_TAG)
          /\ is_render_node(devices[k])
          /\ CardsOf(devices[k]) # {}

\* C13: a render node whose parent driver is not nvidia and that has an
\* ID_PATH_TAG is in the snapshot with the one pair DRI_PRIME=<id>; a device
\* whose parent driver is not nvidia and that has no ID_PATH_TAG is not in it.
C13_PathTagDecidesNonNvidia ==
    pc = "setup_dbus" =>
        \A k \in 1..Len(devices) :
            ~g_strcmp0_eq(devices[k].driver, Str("nvidia")) =>
                IF IsNull(devices[k].ID_PATH_TAG)
                THEN CardsOf(devices[k]) = {}
                ELSE is_render_node(devices[k]) =>
                        /\ CardsOf(devices[k]) # {}
                        /\ \A i \in CardsOf(devices[k]) :
                              cards[i].env = << <<"DRI_PRIME">>, devices[k].ID_PATH_TAG >>

\* a non-nvidia render node with no ID_PATH_TAG was skipped, one with it kept
C13_Witness ==
    /\ pc = "setup_dbus"
    /\ Len(devices) = 2
    /\ Len(cards) = 1
    /\ ~add_fake_cards
    /\ \A k \in 1..2 : ~g_strcmp0_eq(devices[k].driver, Str("nvidia"))
                        /\ is_render_node(devices[k])
    /\ cards[1].env[1] = <<"DRI_PRIME">>

\* C14: started with one qualifying device and no --fake, get_num_gpus makes
\* the first enumeration the snapshot and name_acquired_handler publishes it; a
\* hotplug event that enumerates the same one device replaces nothing and
\* emits nothing.
C14_FirstAcceptedRepeatRejected ==
    [][ /\ (pc = "start" /\ Len(RetainedDevices') = 1)
              => /\ cards' = get_drm_cards(add_fake_cards, devices')
                 /\ num_gpus' = Len(cards')
                 /\ num_gpus' = IF add_fake_cards THEN 3 ELSE 1
        /\ (name_acquired_handler /\ Len(RetainedDevices) = 1
                /\ cards = get_drm_cards(add_fake_cards, devices))
              => /\ out' = <<props_changed(num_gpus, cards)>>
                 /\ published' = out'
        /\ (UeventStep /\ Len(RetainedDevices') = 1 /\ FreshCards = cards)
              => /\ num_gpus' = num_gpus
                 /\ cards' = cards
                 /\ out' = <<>>
                 /\ published' = published ]_vars

\* the one device was enumerated again after its snapshot had been published
C14_Witness ==
    /\ ~add_fake_cards
    /\ last = "uevent_cb: same"
    /\ bus = "owner"
    /\ num_gpus = 1
    /\ cards = get_drm_cards(FALSE, devices)
    /\ published = <<props_changed(1, cards)>>

\* C15: the count is the length of the card list in the snapshot, in every
\* signal and in every reply, and HasDualGpu is NumGPUs >= 2.
C15_CountMatchesCards ==
    /\ cards # NULL_ARRAY => num_gpus = Len(cards)
    /\ \A k \in 1..Len(published) :
          /\ published[k].NumGPUs = Len(published[k].GPUs)
          /\ published[k].HasDualGpu = (published[k].NumGPUs >= 2)
    /\ \A k \in 1..Len(out) :
          /\ out[k].NumGPUs = Len(out[k].GPUs)
          /\ out[k].HasDualGpu = (out[k].NumGPUs >= 2)
    /\ \A k \in 1..Len(reply) :
          /\ reply[k].property = "NumGPUs" => reply[k].value.u = Len(cards)
          /\ reply[k].property = "HasDualGpu" => reply[k].value.b = (Len(cards) >= 2)
          /\ reply[k].property = "GPUs" => Len(reply[k].value.gpus) = num_gpus

\* a snapshot of two GPUs has been published and its count read
C15_Witness ==
    /\ published # <<>>
    /\ published[1].NumGPUs = 2
    /\ reply # <<>>
    /\ reply[1].property = "NumGPUs"
    /\ reply[1].value.u = 2

\* C16: while the name is owned, the last signal emitted carries the values of
\* the current snapshot.
C16_PublishedIsSnapshot ==
    bus = "owner" => published = <<props_changed(num_gpus, cards)>>

\* a hotplug event changed the snapshot while the name was owned
C16_Witness ==
    /\ bus = "owner"
    /\ last = "uevent_cb: changed"
    /\ published = <<props_changed(num_gpus, cards)>>

\* C17: after a hotplug event, num_gpus is the count of the enumeration made
\* for the event, unless the process died while it freed a card list.
C17_CountIsLastEnumeration ==
    last \in {"uevent_cb: changed", "uevent_cb: same", "uevent_cb: abort"} =>
        \/ num_gpus = Len(get_drm_cards(add_fake_cards, devices))
        \/ pc = "aborted" /\ add_fake_cards /\ last = "uevent_cb: abort"

\* the count is that of the last enumeration and the cards are not
C17_Witness ==
    /\ last = "uevent_cb: same"
    /\ num_gpus = Len(get_drm_cards(add_fake_cards, devices))
    /\ num_gpus >= 1
    /\ CardDevs(cards) # CardDevs(get_drm_cards(add_fake_cards, devices))

\* C18: in a snapshot of two or more cards a real card's is_default is its
\* parent's boot_vga and a --fake card's is FALSE; the only card of a snapshot
\* is the default whatever its boot_vga; with --fake there are two cards or more.
C18_DefaultForcedOnlyWhenAlone ==
    pc = "setup_dbus" =>
        /\ Len(cards) >= 2 =>
              \A i \in 1..Len(cards) :
                  cards[i].is_default = IF cards[i].name_is_literal
                                        THEN FALSE
                                        ELSE get_card_is_default(cards[i].dev)
        /\ Len(cards) = 1 => cards[1].is_default
        /\ add_fake_cards => Len(cards) >= 2

\* two real cards whose parents are not the boot VGA device: none is the default
C18_Witness ==
    /\ pc = "setup_dbus"
    /\ ~add_fake_cards
    /\ Len(cards) = 2
    /\ ~devices[1].boot_vga
    /\ ~cards[1].is_default
    /\ ~cards[2].is_default

\* C19: whenever the object is registered the connection is stored, and no
\* read has failed the assertion of handle_get_property.
C19_ConnectionStoredWhenRegistered ==
    /\ registered => g_strcmp0_eq(connection, CONNECTION)
    /\ last # "handle_get_property: abort"

\* a read was served before the name was acquired
C19_Witness ==
    /\ last = "handle_get_property"
    /\ bus = "connected"
    /\ reply # <<>>

ReadStep == \E property_name \in PropertyNames : handle_get_property(property_name)

\* C20: a property read, of a known or an unknown name, leaves num_gpus, the
\* cards, the connection and init_done as they were and emits no signal.
C20_ReadHasNoSideEffect ==
    [][ ReadStep =>
          /\ UNCHANGED <<num_gpus, cards, connection, init_done>>
          /\ out' = <<>>
          /\ published' = published ]_vars

\* an unknown property was read: the reply holds no value
C20_Witness ==
    /\ last = "handle_get_property"
    /\ reply # <<>>
    /\ reply[1].property = "Version"
    /\ reply[1].value.type = "NULL"

====
